---- MODULE Spec2Model ----
(***************************************************************************)
(* A model of the HOAFiles Django application: the relational store        *)
(* (models.py), the request handlers (views.py), the seed command          *)
(* (management/commands/seed.py) and the administrative deletions that     *)
(* models.py makes cascade.                                                *)
(*                                                                         *)
(* Spec     : every request is handled to completion before the next.      *)
(* SpecConc : two requests in flight; a handler is a sequence of ORM       *)
(*            statements, each committed on its own (Django autocommit).   *)
(***************************************************************************)
EXTENDS Integers, Sequences, FiniteSets, TLC

(***************************************************************************)
(* Bounds of the model.                                                    *)
(***************************************************************************)
MaxUserId == 3
MaxGroupId == 2
MaxHouseId == 1
MaxDocId == 1
MaxClock == 2
\* how many entries of seed.py's users_data / hoa_groups_data / houses_data
\* the modelled seed command walks through
SeedUsers == 2
SeedGroups == 1
SeedHouses == 1

(***************************************************************************)
(* Request inputs.  A missing JSON field and an empty one are both falsy   *)
(* in the handlers (`not x`), so "" / <<>> / 0 stand for both.             *)
(***************************************************************************)
Emails == {"", "user1@example.com", "USER1@example.com"}
Passwords == {"", "pw1"}
LoginPasswords == {"", "pw1", "password123"}
OwnerEmails == {"", "owner@x.com"}
Addresses == {"", "123 Main St"}
Titles == {"", "Rules"}
Contents == {"", "text"}
\* a user_id such as 'abc', which the lookup by primary key cannot convert
\* to an integer (ValueError)
NotANumber == -1
\* identifiers in the URL path; BodyUserIds (the user_id of a JSON body or
\* of the query string) adds 0, a missing field, and NotANumber
UserIds == 1..MaxUserId
BodyUserIds == (0..MaxUserId) \cup {NotANumber}
GroupIds == 1..MaxGroupId
DocIds == 1..MaxDocId

(***************************************************************************)
(* Text.  Names, titles and queries are sequences of characters so that    *)
(* case folding, stripping and substring search are computed.              *)
(***************************************************************************)
lower(c) ==
    CASE c = "S" -> "s"
      [] c = "U" -> "u"
      [] c = "O" -> "o"
      [] c = "H" -> "h"
      [] c = "A" -> "a"
      [] c = "L" -> "l"
      [] OTHER -> c

lower_str(s) == [i \in 1..Len(s) |-> lower(s[i])]

\* the characters str.strip() drops: blank, tab, newline
isspace(c) == c \in {" ", "\t", "\n"}

\* str.strip(): drop leading and trailing whitespace
RECURSIVE lstrip(_)
lstrip(s) == IF s # <<>> /\ isspace(Head(s)) THEN lstrip(Tail(s)) ELSE s

RECURSIVE rstrip(_)
rstrip(s) ==
    IF s # <<>> /\ isspace(s[Len(s)]) THEN rstrip(SubSeq(s, 1, Len(s) - 1))
    ELSE s

\* the query used as it comes, without .strip()
strip_missing(s) == s

strip(s) == rstrip(lstrip(s))

\* q occurs in s as a contiguous substring
contains(s, q) ==
    \E i \in 0..(Len(s) - Len(q)) : SubSeq(s, i + 1, i + Len(q)) = q

\* the name__icontains lookup
icontains(s, q) == contains(lower_str(s), lower_str(q))

SunsetHOA == <<"S", "u", "n", "s", "e", "t", " ", "H", "O", "A">>
LakeviewHOA == <<"L", "a", "k", "e", "v", "i", "e", "w", " ", "H", "O", "A">>
OakHOA == <<"O", "a", "k", " ", "H", "O", "A">>
GroupNames == {<<>>, OakHOA}
Queries == {<<>>, <<" ">>, <<"S", "u", "n">>, <<" ", "h", "o", "a", " ">>}

\* django.contrib.auth.hashers: a one-way hash of the raw password
make_password(raw) ==
    CASE raw = "pw1" -> "pbkdf2_sha256$pw1"
      [] raw = "pw2" -> "pbkdf2_sha256$pw2"
      [] raw = "password123" -> "pbkdf2_sha256$password123"
      [] OTHER -> "pbkdf2_sha256$"

check_password(raw, encoded) == raw # "" /\ encoded = make_password(raw)

(***************************************************************************)
(* State: the five tables, their AUTOINCREMENT counters, the clock,        *)
(* the response to the last request (Spec) and the requests in flight      *)
(* (SpecConc).                                                             *)
(***************************************************************************)
VARIABLES users, hoa_groups, memberships, houses, documents,
          next_user_id, next_group_id, next_membership_id, next_house_id,
          next_doc_id, now, resp, req

db == <<users, hoa_groups, memberships, houses, documents,
        next_user_id, next_group_id, next_membership_id, next_house_id,
        next_doc_id>>
vars == <<users, hoa_groups, memberships, houses, documents,
          next_user_id, next_group_id, next_membership_id, next_house_id,
          next_doc_id, now, resp, req>>

NoResponse == [view |-> "none", status |-> 0, error |-> "", data |-> <<>>]

\* the processes that serve requests side by side in SpecConc
Workers == {"w1", "w2"}

\* a worker with no request
Idle ==
    [view |-> "none", pc |-> "idle", user_id |-> 0, hoa_group_id |-> 0,
     email |-> "", password |-> "", name |-> <<>>, owner_email |-> "",
     address |-> "", new_id |-> 0, status |-> 0, error |-> ""]

Init ==
    /\ users = {}
    /\ hoa_groups = {}
    /\ memberships = {}
    /\ houses = {}
    /\ documents = {}
    /\ next_user_id = 1
    /\ next_group_id = 1
    /\ next_membership_id = 1
    /\ next_house_id = 1
    /\ next_doc_id = 1
    /\ now = 0
    /\ resp = NoResponse
    /\ req = [w \in Workers |-> Idle]

(***************************************************************************)
(* models.py: rows, uniqueness constraints, foreign keys, group methods.   *)
(***************************************************************************)
UserRow(id, email, username, password) ==
    [id |-> id, email |-> email, username |-> username, password |-> password]

GroupRow(id, name, owner_email) ==
    [id |-> id, name |-> name, owner_email |-> owner_email]

MembershipRow(id, user, hoa_group, role, joined_at) ==
    [id |-> id, user |-> user, hoa_group |-> hoa_group, role |-> role,
     joined_at |-> joined_at]

HouseRow(id, address, occupants) ==
    [id |-> id, address |-> address, users |-> occupants]

DocumentRow(id, title, content, hoa_group, created_at, updated_at) ==
    [id |-> id, title |-> title, content |-> content, hoa_group |-> hoa_group,
     created_at |-> created_at, updated_at |-> updated_at]

\* User.email is unique=True; AbstractUser.username is unique=True as well
user_unique(us, email, username) ==
    \A u \in us : u.email # email /\ u.username # username

\* HOAGroup without unique=True on its fields: any insert goes through
group_unique_dropped(gs, name, owner_email) == TRUE

\* HOAGroup.name and HOAGroup.owner_email are unique=True
group_unique(gs, name, owner_email) ==
    \A g \in gs : g.name # name /\ g.owner_email # owner_email

\* the model without unique_together: any insert goes through
membership_unique_dropped(ms, user, hoa_group) == TRUE

\* HOAMembership.Meta.unique_together = ['user', 'hoa_group']
membership_unique(ms, user, hoa_group) ==
    \A m \in ms : ~(m.user = user /\ m.hoa_group = hoa_group)

\* House.address is unique=True
house_unique(hs, address) == \A h \in hs : h.address # address

user_exists(us, id) == \E u \in us : u.id = id
group_exists(gs, id) == \E g \in gs : g.id = id

\* is_admin filtering HOAMembership.objects instead of self.memberships:
\* an admin of any group counts
is_admin_any_group(ms, hoa_group, user) ==
    \E m \in ms : m.user = user /\ m.role = "admin"

\* HOAGroup.is_admin: self.memberships.filter(user=user, role='admin').exists()
is_admin(ms, hoa_group, user) ==
    \E m \in ms : m.hoa_group = hoa_group /\ m.user = user /\ m.role = "admin"

\* get_user_role without the user filter: the role of the group's first row
get_user_role_any_user(ms, hoa_group, user) ==
    LET rows == {m \in ms : m.hoa_group = hoa_group}
    IN  IF rows = {} THEN "None"
        ELSE (CHOOSE m \in rows : \A o \in rows : m.id <= o.id).role

\* HOAGroup.get_user_role: self.memberships.filter(user=user).first(), the
\* first row in primary-key order; None when there is none
get_user_role(ms, hoa_group, user) ==
    LET mine == {m \in ms : m.hoa_group = hoa_group /\ m.user = user}
    IN  IF mine = {} THEN "None"
        ELSE (CHOOSE m \in mine : \A o \in mine : m.id <= o.id).role

\* user.hoa_groups / HOAGroup.objects.filter(users=user): ids of the groups
\* the user has a membership in
user_hoa_ids(ms, user) == {m.hoa_group : m \in {x \in ms : x.user = user}}

(***************************************************************************)
(* views.py.  Each handler is one action: lookups, checks, writes and the  *)
(* response, in the order of the code.                                     *)
(***************************************************************************)
Respond(view, status, error, data) ==
    resp' = [view |-> view, status |-> status, error |-> error, data |-> data]

user_tables == <<users, next_user_id>>
group_tables == <<hoa_groups, next_group_id>>
membership_tables == <<memberships, next_membership_id>>
house_tables == <<houses, next_house_id>>
document_tables == <<documents, next_doc_id>>

\* register_user without the exists() check
email_taken_unchecked(us, email) == FALSE

\* User.objects.filter(email=email).exists(): exact string match
email_taken(us, email) == \E u \in us : u.email = email

register_user(method, email, password) ==
    LET R(status, error) ==
            /\ Respond("register_user", status, error, <<>>)
            /\ UNCHANGED db
    IN  /\ UNCHANGED <<now, req>>
        /\ IF method # "POST" THEN R(405, "Method not allowed")
           ELSE IF email = "" \/ password = ""
           THEN R(400, "Email and password are required")
           ELSE IF email_taken(users, email)
           THEN R(400, "User with this email already exists")
           \* User.objects.create(email=email) inserts username '' as well;
           \* an IntegrityError is answered by `except Exception`
           ELSE IF ~user_unique(users, email, "")
           THEN R(400, "UNIQUE constraint failed: users.username")
           ELSE /\ next_user_id <= MaxUserId
                /\ users' = users \cup
                       {UserRow(next_user_id, email, "", make_password(password))}
                /\ next_user_id' = next_user_id + 1
                /\ Respond("register_user", 201, "", next_user_id)
                /\ UNCHANGED <<group_tables, membership_tables, house_tables,
                               document_tables>>

\* login_user with a check_password that stores the password again under
\* another encoding when it matches
login_user_upgrading(method, email, password) ==
    LET R(status, error, data) ==
            /\ Respond("login_user", status, error, data)
            /\ UNCHANGED db
    IN  /\ UNCHANGED <<now, req>>
        /\ IF method # "POST" THEN R(405, "Method not allowed", <<>>)
           ELSE IF email = "" \/ password = ""
           THEN R(400, "Email and password are required", <<>>)
           ELSE IF ~email_taken(users, email)
           THEN R(401, "Invalid credentials", <<>>)
           ELSE LET user == CHOOSE u \in users : u.email = email
                IN  IF check_password(password, user.password)
                    THEN /\ users' = (users \ {user}) \cup
                                {[user EXCEPT !.password = "argon2$"]}
                         /\ Respond("login_user", 200, "", user.id)
                         /\ UNCHANGED <<next_user_id, group_tables,
                                        membership_tables, house_tables,
                                        document_tables>>
                    ELSE R(401, "Invalid credentials", <<>>)

\* login_user telling an unknown email apart from a wrong password
login_user_enumerating(method, email, password) ==
    LET R(status, error, data) ==
            Respond("login_user", status, error, data)
    IN  /\ UNCHANGED <<db, now, req>>
        /\ IF method # "POST" THEN R(405, "Method not allowed", <<>>)
           ELSE IF email = "" \/ password = ""
           THEN R(400, "Email and password are required", <<>>)
           ELSE IF ~email_taken(users, email)
           THEN R(404, "User not found", <<>>)
           ELSE LET user == CHOOSE u \in users : u.email = email
                IN  IF check_password(password, user.password)
                    THEN R(200, "", user.id)
                    ELSE R(401, "Invalid credentials", <<>>)

login_user(method, email, password) ==
    LET R(status, error, data) ==
            Respond("login_user", status, error, data)
    IN  /\ UNCHANGED <<db, now, req>>
        /\ IF method # "POST" THEN R(405, "Method not allowed", <<>>)
           ELSE IF email = "" \/ password = ""
           THEN R(400, "Email and password are required", <<>>)
           ELSE IF ~email_taken(users, email)
           THEN R(401, "Invalid credentials", <<>>)
           ELSE LET user == CHOOSE u \in users : u.email = email
                IN  IF check_password(password, user.password)
                    THEN R(200, "", user.id)
                    ELSE R(401, "Invalid credentials", <<>>)

\* HOAGroup.objects.filter(name=name).exists() / filter(owner_email=...)
name_taken(gs, name) == \E g \in gs : g.name = name
owner_email_taken(gs, owner_email) == \E g \in gs : g.owner_email = owner_email

\* the GET branch: the user's groups, each with get_user_role
groups_with_roles(user_id) ==
    {[id |-> g, role |-> get_user_role(memberships, g, user_id)] :
        g \in user_hoa_ids(memberships, user_id)}

user_hoa_groups(method, user_id, name, owner_email) ==
    LET R(status, error, data) ==
            /\ Respond("user_hoa_groups", status, error, data)
            /\ UNCHANGED db
    IN  /\ UNCHANGED <<now, req>>
        /\ IF ~user_exists(users, user_id) THEN R(404, "User not found", <<>>)
           ELSE IF method = "GET" THEN R(200, "", groups_with_roles(user_id))
           ELSE IF method # "POST" THEN R(405, "Method not allowed", <<>>)
           ELSE IF name = <<>> \/ owner_email = ""
           THEN R(400, "Name and owner_email are required", <<>>)
           ELSE IF name_taken(hoa_groups, name)
           THEN R(400, "HOAGroup with this name already exists", <<>>)
           ELSE IF owner_email_taken(hoa_groups, owner_email)
           THEN R(400, "HOAGroup with this owner_email already exists", <<>>)
           ELSE /\ next_group_id <= MaxGroupId
                /\ hoa_groups' = hoa_groups \cup
                       {GroupRow(next_group_id, name, owner_email)}
                /\ next_group_id' = next_group_id + 1
                \* Create membership with admin role for the creator
                /\ memberships' = memberships \cup
                       {MembershipRow(next_membership_id, user_id, next_group_id,
                                      "admin", now)}
                /\ next_membership_id' = next_membership_id + 1
                /\ Respond("user_hoa_groups", 201, "",
                           [id |-> next_group_id, role |-> "admin"])
                /\ UNCHANGED <<user_tables, house_tables, document_tables>>

address_taken(hs, address) == \E h \in hs : h.address = address

user_houses(method, user_id, address) ==
    LET R(status, error, data) ==
            /\ Respond("user_houses", status, error, data)
            /\ UNCHANGED db
    IN  /\ UNCHANGED <<now, req>>
        /\ IF ~user_exists(users, user_id) THEN R(404, "User not found", <<>>)
           ELSE IF method = "GET"
           THEN R(200, "", {h.id : h \in {x \in houses : user_id \in x.users}})
           ELSE IF method # "POST" THEN R(405, "Method not allowed", <<>>)
           ELSE IF address = "" THEN R(400, "Address is required", <<>>)
           ELSE IF address_taken(houses, address)
           THEN R(400, "House with this address already exists", <<>>)
           ELSE /\ next_house_id <= MaxHouseId
                /\ houses' = houses \cup {HouseRow(next_house_id, address, {user_id})}
                /\ next_house_id' = next_house_id + 1
                /\ Respond("user_houses", 201, "", next_house_id)
                /\ UNCHANGED <<user_tables, group_tables, membership_tables,
                               document_tables>>

\* the slice [:10] of the search
SearchLimit == 10

\* the search without the slice: every row comes back
Min_unsliced(a, b) == b

Min(a, b) == IF a <= b THEN a ELSE b

\* the search without .exclude(id__in=user_hoa_ids)
search_candidates_unfiltered(gs, ms, user_id, query) ==
    {g.id : g \in {x \in gs : icontains(x.name, query)}}

\* HOAGroup.objects.filter(name__icontains=query).exclude(id__in=user_hoa_ids)
search_candidates(gs, ms, user_id, query) ==
    {g.id : g \in {x \in gs : /\ icontains(x.name, query)
                              /\ x.id \notin user_hoa_ids(ms, user_id)}}

\* the ways a slice of k rows can fall on the rows S of an unordered queryset
RECURSIVE subsets_of_size(_, _)
subsets_of_size(S, k) ==
    IF k = 0 THEN {{}}
    ELSE IF S = {} THEN {}
    ELSE LET x == CHOOSE y \in S : TRUE
         IN  subsets_of_size(S \ {x}, k)
                \cup {T \cup {x} : T \in subsets_of_size(S \ {x}, k - 1)}

search_hoa_groups(method, user_id, q) ==
    LET query == strip(q)
        found == search_candidates(hoa_groups, memberships, user_id, query)
        \* the answer is kept with the user and the stripped query it is for
        R(status, error, page) ==
            Respond("search_hoa_groups", status, error,
                    [user_id |-> user_id, query |-> query, hoa_groups |-> page])
    IN  /\ UNCHANGED <<db, now, req>>
        /\ IF ~user_exists(users, user_id) THEN R(404, "User not found", {})
           ELSE IF method # "GET" THEN R(405, "Method not allowed", {})
           ELSE IF query = <<>> THEN R(200, "", {})
           \* the queryset is unordered: any SearchLimit of the rows may come back
           ELSE \E page \in subsets_of_size(found,
                                             Min(SearchLimit, Cardinality(found))) :
                    R(200, "", page)

\* join_hoa_group without the exists() check
already_member_unchecked(ms, user_id, hoa_group_id) == FALSE

\* HOAMembership.objects.filter(user=user, hoa_group=hoa_group).exists()
already_member(ms, user_id, hoa_group_id) ==
    \E m \in ms : m.user = user_id /\ m.hoa_group = hoa_group_id

joined_role_admin == "admin"

\* HOAMembership.objects.create(..., role='member')
joined_role == "member"

join_hoa_group(method, user_id, hoa_group_id) ==
    LET R(status, error) ==
            /\ Respond("join_hoa_group", status, error, <<>>)
            /\ UNCHANGED db
    IN  /\ UNCHANGED <<now, req>>
        /\ IF ~user_exists(users, user_id) THEN R(404, "User not found")
           ELSE IF ~group_exists(hoa_groups, hoa_group_id)
           THEN R(404, "HOAGroup not found")
           ELSE IF method # "POST" THEN R(405, "Method not allowed")
           ELSE IF already_member(memberships, user_id, hoa_group_id)
           THEN R(400, "User is already a member of this HOAGroup")
           \* the insert is outside any try: an IntegrityError is a 500
           ELSE IF ~membership_unique(memberships, user_id, hoa_group_id)
           THEN R(500, "IntegrityError")
           ELSE /\ memberships' = memberships \cup
                       {MembershipRow(next_membership_id, user_id, hoa_group_id,
                                      joined_role, now)}
                /\ next_membership_id' = next_membership_id + 1
                /\ Respond("join_hoa_group", 200, "",
                           [id |-> hoa_group_id, role |-> joined_role])
                /\ UNCHANGED <<user_tables, group_tables, house_tables,
                               document_tables>>

\* the listing with order_by('created_at'): oldest first
documents_oldest_first(ds, hoa_group_id) ==
    LET mine == {d \in ds : d.hoa_group = hoa_group_id}
        n == Cardinality(mine)
    IN  {f \in [1..n -> mine] :
            /\ \A i, j \in 1..n : i # j => f[i] # f[j]
            /\ \A i, j \in 1..n : i < j => f[i].created_at <= f[j].created_at}

\* hoa_group.documents.all().order_by('-created_at'): every sequence of the
\* group's documents with created_at non-increasing (ties come back in an
\* order the database chooses)
documents_newest_first(ds, hoa_group_id) ==
    LET mine == {d \in ds : d.hoa_group = hoa_group_id}
        n == Cardinality(mine)
    IN  {f \in [1..n -> mine] :
            /\ \A i, j \in 1..n : i # j => f[i] # f[j]
            /\ \A i, j \in 1..n : i < j => f[i].created_at >= f[j].created_at}

title_missing_unchecked(title) == FALSE

\* `if not title`: the title is absent or the empty string
title_missing(title) == title = ""

hoa_group_documents(method, hoa_group_id, user_id, title, content) ==
    LET R(status, error, data) ==
            /\ Respond("hoa_group_documents", status, error, data)
            /\ UNCHANGED db
    IN  /\ UNCHANGED <<now, req>>
        /\ IF ~group_exists(hoa_groups, hoa_group_id)
           THEN R(404, "HOA Group not found", <<>>)
           ELSE IF method = "GET"
           THEN \E listing \in documents_newest_first(documents, hoa_group_id) :
                    R(200, "", listing)
           ELSE IF method # "POST" THEN R(405, "Method not allowed", <<>>)
           \* Permission check: only admins can create documents
           ELSE IF user_id = 0 THEN R(400, "User ID required", <<>>)
           \* ValueError, answered by `except Exception`
           ELSE IF user_id = NotANumber
           THEN R(400, "Field 'id' expected a number but got 'abc'.", <<>>)
           ELSE IF ~user_exists(users, user_id) THEN R(404, "User not found", <<>>)
           ELSE IF ~is_admin(memberships, hoa_group_id, user_id)
           THEN R(403, "Only admins can create documents", <<>>)
           ELSE IF title_missing(title) THEN R(400, "Title is required", <<>>)
           ELSE /\ documents' = documents \cup
                       {DocumentRow(next_doc_id, title, content, hoa_group_id,
                                    now, now)}
                /\ next_doc_id' = next_doc_id + 1
                /\ Respond("hoa_group_documents", 201, "", next_doc_id)
                /\ UNCHANGED <<user_tables, group_tables, membership_tables,
                               house_tables>>

\* a save that stamps created_at again, as auto_now would
save_document_restamped(document, title, content, clock) ==
    DocumentRow(document.id, title, content, document.hoa_group, clock, clock)

\* document.title = title; document.content = content; document.save():
\* updated_at is auto_now, created_at (auto_now_add) stays
save_document(document, title, content, clock) ==
    DocumentRow(document.id, title, content, document.hoa_group,
                document.created_at, clock)

\* the lookup by primary key alone
document_found_any_group(ds, document_id, hoa_group_id) ==
    \E d \in ds : d.id = document_id

\* Document.objects.get(pk=document_id, hoa_group=hoa_group)
document_found(ds, document_id, hoa_group_id) ==
    \E d \in ds : d.id = document_id /\ d.hoa_group = hoa_group_id

documents_after_delete_kept(ds, document_id) == ds

\* document.delete()
documents_after_delete(ds, document_id) == {d \in ds : d.id # document_id}

delete_document(method, hoa_group_id, document_id, user_id, title, content) ==
    LET R(status, error) ==
            /\ Respond("delete_document", status, error, <<>>)
            /\ UNCHANGED db
        others == {d \in documents : d.id # document_id}
        document == CHOOSE d \in documents : d.id = document_id
    IN  /\ UNCHANGED <<now, req>>
        /\ IF ~group_exists(hoa_groups, hoa_group_id)
           THEN R(404, "HOA Group not found")
           ELSE IF ~document_found(documents, document_id, hoa_group_id)
           THEN R(404, "Document not found")
           ELSE IF method = "DELETE"
           THEN \* Permission check: only admins can delete documents
                IF user_id = 0 THEN R(400, "User ID required")
                \* ValueError outside any try: the view fails with a 500
                ELSE IF user_id = NotANumber THEN R(500, "ValueError")
                ELSE IF ~user_exists(users, user_id) THEN R(404, "User not found")
                ELSE IF ~is_admin(memberships, hoa_group_id, user_id)
                THEN R(403, "Only admins can delete documents")
                ELSE /\ documents' = documents_after_delete(documents, document_id)
                     /\ Respond("delete_document", 200, "", <<>>)
                     /\ UNCHANGED <<user_tables, group_tables, membership_tables,
                                    house_tables, next_doc_id>>
           ELSE IF method = "PUT"
           THEN \* Permission check: only admins can update documents
                IF user_id = 0 THEN R(400, "User ID required")
                \* ValueError, answered by `except Exception`
                ELSE IF user_id = NotANumber
                THEN R(400, "Field 'id' expected a number but got 'abc'.")
                ELSE IF ~user_exists(users, user_id) THEN R(404, "User not found")
                ELSE IF ~is_admin(memberships, hoa_group_id, user_id)
                THEN R(403, "Only admins can update documents")
                ELSE IF title_missing(title) THEN R(400, "Title is required")
                ELSE /\ documents' = others \cup
                            {save_document(document, title, content, now)}
                     /\ Respond("delete_document", 200, "", document_id)
                     /\ UNCHANGED <<user_tables, group_tables, membership_tables,
                                    house_tables, next_doc_id>>
           ELSE R(405, "Method not allowed")

\* renders the user's groups with roles and houses; Http404 when the user is absent
user_dashboard(user_id) ==
    /\ UNCHANGED <<db, now, req>>
        /\ IF ~user_exists(users, user_id)
           THEN Respond("user_dashboard", 404, "User not found", <<>>)
           ELSE Respond("user_dashboard", 200, "",
                    [hoa_groups |->
                        {[id |-> m.hoa_group, role |-> m.role] :
                            m \in {x \in memberships : x.user = user_id}},
                     houses |-> {h.id : h \in {x \in houses : user_id \in x.users}}])

\* renders the group's documents and members; ?user_id= computes the admin flag
hoa_group_dashboard(hoa_group_id, user_id) ==
    LET current_user == IF user_id # 0 /\ user_exists(users, user_id)
                        THEN user_id ELSE 0
        admin == current_user # 0 /\ is_admin(memberships, hoa_group_id, current_user)
    IN  /\ UNCHANGED <<db, now, req>>
        /\ IF ~group_exists(hoa_groups, hoa_group_id)
           THEN Respond("hoa_group_dashboard", 404,
                        "HOA Group not found", <<>>)
           \* only User.DoesNotExist is caught: a ValueError is a 500
           ELSE IF user_id = NotANumber
           THEN Respond("hoa_group_dashboard", 500, "ValueError", <<>>)
           ELSE \E listing \in documents_newest_first(documents, hoa_group_id) :
                    Respond("hoa_group_dashboard", 200, "",
                        [hoa_group |-> hoa_group_id,
                         is_admin |-> admin,
                         current_user |-> current_user,
                         documents |-> listing,
                         memberships |->
                            {[user |-> m.user, role |-> m.role] :
                                m \in {x \in memberships :
                                          x.hoa_group = hoa_group_id}}])

(***************************************************************************)
(* Administrative deletion (the admin site registers every model).         *)
(* on_delete=CASCADE removes the rows that reference the deleted one.      *)
(***************************************************************************)
\* HOAMembership.user with on_delete=DO_NOTHING: the rows stay
memberships_after_user_delete_kept(ms, user_id) == ms

\* HOAMembership.user = ForeignKey(User, on_delete=CASCADE)
memberships_after_user_delete(ms, user_id) == {m \in ms : m.user # user_id}

\* HOAMembership.hoa_group = ForeignKey(HOAGroup, on_delete=CASCADE)
memberships_after_group_delete(ms, hoa_group_id) ==
    {m \in ms : m.hoa_group # hoa_group_id}

\* Document.hoa_group = ForeignKey(HOAGroup, on_delete=CASCADE)
documents_after_group_delete(ds, hoa_group_id) ==
    {d \in ds : d.hoa_group # hoa_group_id}

\* House.users: the rows of the many-to-many table go with the user
houses_after_user_delete(hs, user_id) ==
    {HouseRow(h.id, h.address, h.users \ {user_id}) : h \in hs}

delete_user(user_id) ==
    /\ user_exists(users, user_id)
    /\ users' = {u \in users : u.id # user_id}
    /\ memberships' = memberships_after_user_delete(memberships, user_id)
    /\ houses' = houses_after_user_delete(houses, user_id)
    /\ Respond("delete_user", 200, "", <<>>)
    /\ UNCHANGED <<hoa_groups, documents, next_user_id, next_group_id,
                   next_membership_id, next_house_id, next_doc_id, now, req>>

delete_hoa_group(hoa_group_id) ==
    /\ group_exists(hoa_groups, hoa_group_id)
    /\ hoa_groups' = {g \in hoa_groups : g.id # hoa_group_id}
    /\ memberships' = memberships_after_group_delete(memberships, hoa_group_id)
    /\ documents' = documents_after_group_delete(documents, hoa_group_id)
    /\ Respond("delete_hoa_group", 200, "", <<>>)
    /\ UNCHANGED <<users, houses, next_user_id, next_group_id,
                   next_membership_id, next_house_id, next_doc_id, now, req>>

(***************************************************************************)
(* management/commands/seed.py.  The command runs its three loops in       *)
(* order and stops at the first exception, keeping what it has written.    *)
(***************************************************************************)
users_data ==
    <<[email |-> "user1@example.com", password |-> "password123"],
      [email |-> "user2@example.com", password |-> "password123"],
      [email |-> "user3@example.com", password |-> "password123"],
      [email |-> "user4@example.com", password |-> "password123"],
      [email |-> "user5@example.com", password |-> "password123"]>>

hoa_groups_data ==
    <<[name |-> SunsetHOA, owner_email |-> "owner1@hoa.com"],
      [name |-> LakeviewHOA, owner_email |-> "owner2@hoa.com"]>>

houses_data == <<"123 Main St", "456 Oak Ave", "789 Pine Rd">>

\* the store as the command sees it while it runs
SeedStart ==
    [users |-> users, hoa_groups |-> hoa_groups, memberships |-> memberships,
     houses |-> houses, next_user_id |-> next_user_id,
     next_group_id |-> next_group_id,
     next_membership_id |-> next_membership_id,
     next_house_id |-> next_house_id, seeded |-> <<>>, ok |-> TRUE]

\* User.objects.get_or_create(email=..., username=...), then set_password
RECURSIVE seed_users(_, _)
seed_users(S, i) ==
    IF i > SeedUsers \/ ~S.ok THEN S
    ELSE LET email == users_data[i].email
             got == {u \in S.users : u.email = email /\ u.username = email}
         IN  IF got # {}
             THEN seed_users([S EXCEPT !.seeded =
                                 Append(@, (CHOOSE u \in got : TRUE).id)], i + 1)
             ELSE IF ~user_unique(S.users, email, email)
             THEN [S EXCEPT !.ok = FALSE]
             ELSE seed_users(
                     [S EXCEPT
                        !.users = @ \cup
                            {UserRow(S.next_user_id, email, email,
                                     make_password(users_data[i].password))},
                        !.next_user_id = @ + 1,
                        !.seeded = Append(@, S.next_user_id)], i + 1)

default_role_unset == ""

\* HOAMembership.role: default='member'
default_role == "member"

\* hoa.users.add(*users): a membership with the default role for every
\* listed user that has none in the group
RECURSIVE add_users(_, _, _, _)
add_users(S, hoa_group_id, ids, k) ==
    IF k > Len(ids) THEN S
    ELSE IF already_member(S.memberships, ids[k], hoa_group_id)
         THEN add_users(S, hoa_group_id, ids, k + 1)
         ELSE add_users(
                 [S EXCEPT
                    !.memberships = @ \cup
                        {MembershipRow(S.next_membership_id, ids[k], hoa_group_id,
                                       default_role, now)},
                    !.next_membership_id = @ + 1], hoa_group_id, ids, k + 1)

\* HOAGroup.objects.get_or_create(name=..., defaults={owner_email}), then
\* hoa.users.add(*users[:3])
RECURSIVE seed_groups(_, _)
seed_groups(S, i) ==
    IF i > SeedGroups \/ ~S.ok THEN S
    ELSE LET data == hoa_groups_data[i]
             got == {g \in S.hoa_groups : g.name = data.name}
             first3 == SubSeq(S.seeded, 1, Min(3, Len(S.seeded)))
         IN  IF got # {}
             THEN seed_groups(
                     add_users(S, (CHOOSE g \in got : TRUE).id, first3, 1), i + 1)
             ELSE IF ~group_unique(S.hoa_groups, data.name, data.owner_email)
             THEN [S EXCEPT !.ok = FALSE]
             ELSE seed_groups(
                     add_users(
                        [S EXCEPT
                           !.hoa_groups = @ \cup
                               {GroupRow(S.next_group_id, data.name,
                                         data.owner_email)},
                           !.next_group_id = @ + 1],
                        S.next_group_id, first3, 1), i + 1)

\* House.objects.get_or_create(address=address), then
\* house.users.add(users[0], users[1])
RECURSIVE seed_houses(_, _)
seed_houses(S, i) ==
    IF i > SeedHouses \/ ~S.ok THEN S
    ELSE LET address == houses_data[i]
             got == {h \in S.houses : h.address = address}
             two == {S.seeded[1], S.seeded[2]}
         IN  IF got # {}
             THEN LET house == CHOOSE h \in got : TRUE
                  IN  seed_houses(
                         [S EXCEPT !.houses = (@ \ {house}) \cup
                             {HouseRow(house.id, address, house.users \cup two)}],
                         i + 1)
             ELSE seed_houses(
                     [S EXCEPT
                        !.houses = @ \cup {HouseRow(S.next_house_id, address, two)},
                        !.next_house_id = @ + 1], i + 1)

\* Command.handle
handle ==
    LET S == seed_houses(seed_groups(seed_users(SeedStart, 1), 1), 1)
    IN  /\ S.next_user_id <= MaxUserId + 1
        /\ S.next_group_id <= MaxGroupId + 1
        /\ S.next_house_id <= MaxHouseId + 1
        /\ users' = S.users
        /\ hoa_groups' = S.hoa_groups
        /\ memberships' = S.memberships
        /\ houses' = S.houses
        /\ next_user_id' = S.next_user_id
        /\ next_group_id' = S.next_group_id
        /\ next_membership_id' = S.next_membership_id
        /\ next_house_id' = S.next_house_id
        /\ Respond("seed", IF S.ok THEN 0 ELSE 1,
                   IF S.ok THEN "" ELSE "IntegrityError", <<>>)
        /\ UNCHANGED <<document_tables, now, req>>

\* time passes
Tick ==
    /\ now < MaxClock
    /\ now' = now + 1
    /\ UNCHANGED <<db, resp, req>>

\* a request without a body (GET, DELETE) carries no body fields
NoBody(method) == method \in {"GET", "DELETE"}

Register == \E m \in {"GET", "POST"}, e \in Emails, p \in Passwords :
    /\ NoBody(m) => e = "" /\ p = ""
    /\ register_user(m, e, p)

Login == \E m \in {"GET", "POST"}, e \in Emails, p \in LoginPasswords :
    /\ NoBody(m) => e = "" /\ p = ""
    /\ login_user(m, e, p)

UserGroups ==
    \E m \in {"GET", "POST", "DELETE"}, u \in UserIds, n \in GroupNames,
       o \in OwnerEmails :
        /\ NoBody(m) => n = <<>> /\ o = ""
        /\ user_hoa_groups(m, u, n, o)

UserHouses == \E m \in {"GET", "POST", "DELETE"}, u \in UserIds, a \in Addresses :
    /\ NoBody(m) => a = ""
    /\ user_houses(m, u, a)

Search == \E m \in {"GET", "POST"}, u \in UserIds, q \in Queries :
    /\ m = "POST" => q = <<>>
    /\ search_hoa_groups(m, u, q)

Join == \E m \in {"GET", "POST"}, u \in UserIds, g \in GroupIds :
    join_hoa_group(m, u, g)

GroupDocuments ==
    \E m \in {"GET", "POST", "DELETE"}, g \in GroupIds, u \in BodyUserIds,
       t \in Titles, c \in Contents :
        /\ NoBody(m) => u = 0 /\ t = "" /\ c = ""
        /\ hoa_group_documents(m, g, u, t, c)
        /\ next_doc_id' <= MaxDocId + 1

DocumentDetail ==
    \E m \in {"GET", "PUT", "DELETE"}, g \in GroupIds, d \in DocIds,
       u \in BodyUserIds, t \in Titles, c \in Contents :
        /\ NoBody(m) => t = "" /\ c = ""
        /\ m = "GET" => u = 0
        /\ delete_document(m, g, d, u, t, c)

UserDashboard == \E u \in UserIds : user_dashboard(u)

GroupDashboard == \E g \in GroupIds, u \in BodyUserIds : hoa_group_dashboard(g, u)

AdminDeleteUser == \E u \in UserIds : delete_user(u)

AdminDeleteGroup == \E g \in GroupIds : delete_hoa_group(g)

Seed == handle

\* the request handlers and the seed command
Next ==
    \/ Register
    \/ Login
    \/ UserGroups
    \/ Search
    \/ Join
    \/ GroupDocuments
    \/ DocumentDetail
    \/ UserDashboard
    \/ GroupDashboard
    \/ Seed

Spec == Init /\ [][Next]_vars

\* the housing registry: houses and their occupants
NextHousing ==
    \/ Register
    \/ UserHouses
    \/ UserDashboard
    \/ Seed
    \/ AdminDeleteUser

SpecHousing == Init /\ [][NextHousing]_vars

\* the handlers that write to the group, membership and document tables,
\* with users and groups deleted through the admin site
PostGroup == \E u \in UserIds, n \in GroupNames, o \in OwnerEmails :
    user_hoa_groups("POST", u, n, o)

PostJoin == \E u \in UserIds, g \in GroupIds : join_hoa_group("POST", u, g)

PostDocument == \E g \in GroupIds, u \in UserIds, t \in Titles, c \in Contents :
    /\ hoa_group_documents("POST", g, u, t, c)
    /\ next_doc_id' <= MaxDocId + 1

DeleteDocument == \E g \in GroupIds, d \in DocIds, u \in UserIds :
    delete_document("DELETE", g, d, u, "", "")

NextAdmin ==
    \/ Register
    \/ PostGroup
    \/ PostJoin
    \/ PostDocument
    \/ DeleteDocument
    \/ Seed
    \/ AdminDeleteUser
    \/ AdminDeleteGroup

SpecAdmin == Init /\ [][NextAdmin]_vars

(***************************************************************************)
(* The documents of a group over time.  Requests are handled one at a      *)
(* time and timestamps have microsecond resolution: a request that writes  *)
(* a document reads a later time than every write before it.               *)
(***************************************************************************)
\* the most documents created
MaxDocs == 2

DocTitles == {"", "Rules", "Bylaws"}

\* the clock has moved on since the last write
later == \A d \in documents : d.created_at < now /\ d.updated_at < now

DocsCreateGroup == \E u \in UserIds :
    user_hoa_groups("POST", u, OakHOA, "owner@x.com")

DocCreate ==
    \E g \in GroupIds, u \in BodyUserIds, t \in DocTitles, c \in Contents :
        /\ later
        /\ hoa_group_documents("POST", g, u, t, c)
        /\ next_doc_id' <= MaxDocs + 1

DocList == \E g \in GroupIds : hoa_group_documents("GET", g, 0, "", "")

DocUpdate ==
    \E g \in GroupIds, d \in 1..MaxDocs, u \in BodyUserIds, t \in DocTitles,
       c \in Contents :
        /\ later
        /\ delete_document("PUT", g, d, u, t, c)

DocDelete == \E g \in GroupIds, d \in 1..MaxDocs, u \in BodyUserIds :
    delete_document("DELETE", g, d, u, "", "")

NextDocs ==
    \/ Seed
    \/ DocsCreateGroup
    \/ DocCreate
    \/ DocList
    \/ DocUpdate
    \/ DocDelete
    \/ Tick

SpecDocs == Init /\ [][NextDocs]_vars

\* the documents of a group over the life of the group: groups are deleted
\* through the admin site
NextLifecycle ==
    \/ NextDocs
    \/ AdminDeleteGroup

SpecLifecycle == Init /\ [][NextLifecycle]_vars

(***************************************************************************)
(* Searching a store with more groups than one answer holds: the store     *)
(* after the seed command and a number of createGroup requests by the      *)
(* first seeded user.                                                      *)
(***************************************************************************)
\* the most groups the first seeded user has created
SearchGroups == 11

GroupLetters == <<"a", "b", "c", "d", "e", "f", "g", "h", "i", "j", "k", "l", "m">>
CreatedName(k) == <<"S", "u", "n", " ", GroupLetters[k]>>
CreatedOwnerEmails ==
    <<"a@hoa.com", "b@hoa.com", "c@hoa.com", "d@hoa.com", "e@hoa.com",
      "f@hoa.com", "g@hoa.com", "h@hoa.com", "i@hoa.com", "j@hoa.com",
      "k@hoa.com", "l@hoa.com", "m@hoa.com">>
CreatedOwnerEmail(k) == CreatedOwnerEmails[k]
SearchQueries == {<<>>, <<" ">>, <<"\t", " ">>, <<"s", "U", "n">>,
                  <<"n", " ", "a">>, <<" ", "h", "o", "a", " ">>}

EmptyStore ==
    [users |-> {}, hoa_groups |-> {}, memberships |-> {}, houses |-> {},
     next_user_id |-> 1, next_group_id |-> 1, next_membership_id |-> 1,
     next_house_id |-> 1, seeded |-> <<>>, ok |-> TRUE]

\* the store Command.handle leaves when it starts from an empty one
Seeded == seed_houses(seed_groups(seed_users(EmptyStore, 1), 1), 1)

\* n successful POSTs of user_hoa_groups by `creator` on top of store S
groups_created(S, creator, n) ==
    {GroupRow(S.next_group_id + k - 1, CreatedName(k), CreatedOwnerEmail(k)) :
        k \in 1..n}

admin_memberships_created(S, creator, n) ==
    {MembershipRow(S.next_membership_id + k - 1, creator,
                   S.next_group_id + k - 1, "admin", 0) : k \in 1..n}

InitSearch ==
    /\ now = 0
    /\ resp = NoResponse
    /\ req = [w \in Workers |-> Idle]
    /\ documents = {}
    /\ next_doc_id = 1
    /\ users = Seeded.users
    /\ next_user_id = Seeded.next_user_id
    /\ houses = Seeded.houses
    /\ next_house_id = Seeded.next_house_id
    /\ \E n \in (SearchGroups - 2)..SearchGroups :
          /\ hoa_groups = Seeded.hoa_groups
                             \cup groups_created(Seeded, Seeded.seeded[1], n)
          /\ next_group_id = Seeded.next_group_id + n
          /\ memberships = Seeded.memberships
                  \cup admin_memberships_created(Seeded, Seeded.seeded[1], n)
          /\ next_membership_id = Seeded.next_membership_id + n

SearchMany == \E u \in UserIds, q \in SearchQueries :
    search_hoa_groups("GET", u, q)

\* the second seeded user joins one of the first two created groups
JoinCreated == \E k \in 0..1 :
    join_hoa_group("POST", Seeded.seeded[2], Seeded.next_group_id + k)

NextSearch ==
    \/ SearchMany
    \/ JoinCreated

SpecSearch == InitSearch /\ [][NextSearch]_vars

(***************************************************************************)
(* Every request handler with every method, houses included, on the store  *)
(* the seed command leaves and on the store with one registered user.      *)
(***************************************************************************)
\* the store after one successful POST of register_user on an empty one
Registered ==
    [EmptyStore EXCEPT
        !.users = {UserRow(1, "user1@example.com", "", make_password("pw1"))},
        !.next_user_id = 2]

InitFrame ==
    /\ now = 0
    /\ resp = NoResponse
    /\ req = [w \in Workers |-> Idle]
    /\ documents = {}
    /\ next_doc_id = 1
    /\ \E S \in {Seeded, Registered} :
          /\ users = S.users
          /\ hoa_groups = S.hoa_groups
          /\ memberships = S.memberships
          /\ houses = S.houses
          /\ next_user_id = S.next_user_id
          /\ next_group_id = S.next_group_id
          /\ next_membership_id = S.next_membership_id
          /\ next_house_id = S.next_house_id

NextFrame ==
    \/ Register
    \/ Login
    \/ UserGroups
    \/ UserHouses
    \/ Search
    \/ Join
    \/ GroupDocuments
    \/ DocumentDetail
    \/ UserDashboard
    \/ GroupDashboard

SpecFrame == InitFrame /\ [][NextFrame]_vars

(***************************************************************************)
(* Roles over time: groups are created and joined while the clock moves,   *)
(* users are deleted through the admin site, and documents are written     *)
(* under the groups that remain.                                           *)
(***************************************************************************)
PutDocument == \E g \in GroupIds, d \in DocIds, u \in UserIds :
    delete_document("PUT", g, d, u, "Bylaws", "text")

NextRoles ==
    \/ Seed
    \/ DocsCreateGroup
    \/ PostJoin
    \/ PostDocument
    \/ PutDocument
    \/ DeleteDocument
    \/ AdminDeleteUser
    \/ Tick

SpecRoles == Init /\ [][NextRoles]_vars

(***************************************************************************)
(* Documents of several groups with admins of their own: the store after   *)
(* the seed command and the creation of OwnedGroups groups, by the seeded  *)
(* users in turn.                                                          *)
(***************************************************************************)
\* the groups created on top of the seeded ones
OwnedGroups == 2

\* the seeded user who created the k-th of these groups
Creator(k) == Seeded.seeded[((k - 1) % Len(Seeded.seeded)) + 1]

OwnedGroupIds == 1..(Seeded.next_group_id + OwnedGroups - 1)

InitOwnership ==
    /\ now = 0
    /\ resp = NoResponse
    /\ req = [w \in Workers |-> Idle]
    /\ documents = {}
    /\ next_doc_id = 1
    /\ users = Seeded.users
    /\ next_user_id = Seeded.next_user_id
    /\ houses = Seeded.houses
    /\ next_house_id = Seeded.next_house_id
    /\ hoa_groups = Seeded.hoa_groups \cup groups_created(Seeded, Creator(1), OwnedGroups)
    /\ next_group_id = Seeded.next_group_id + OwnedGroups
    /\ memberships = Seeded.memberships \cup
          {MembershipRow(Seeded.next_membership_id + k - 1, Creator(k),
                         Seeded.next_group_id + k - 1, "admin", 0) :
              k \in 1..OwnedGroups}
    /\ next_membership_id = Seeded.next_membership_id + OwnedGroups

OwnCreate == \E g \in OwnedGroupIds, u \in UserIds, t \in Titles :
    /\ hoa_group_documents("POST", g, u, t, "")
    /\ next_doc_id' <= MaxDocs + 1

OwnList == \E g \in OwnedGroupIds : hoa_group_documents("GET", g, 0, "", "")

OwnUpdate == \E g \in OwnedGroupIds, d \in 1..MaxDocs, u \in UserIds, t \in DocTitles :
    delete_document("PUT", g, d, u, t, "text")

OwnDelete == \E g \in OwnedGroupIds, d \in 1..MaxDocs, u \in UserIds :
    delete_document("DELETE", g, d, u, "", "")

NextOwnership ==
    \/ OwnCreate
    \/ OwnList
    \/ OwnUpdate
    \/ OwnDelete

SpecOwnership == InitOwnership /\ [][NextOwnership]_vars

(***************************************************************************)
(* Concurrent requests.  Django runs in autocommit mode and the handlers   *)
(* open no transaction, so each ORM statement of a handler commits on its  *)
(* own and another worker's statement may run between two of them.  A      *)
(* handler is split at its writes: the lookups and checks before the       *)
(* first write are one step, each write is one step.                       *)
(***************************************************************************)
\* a request goes to w1 when w1 is free, to w2 otherwise
Free(w) ==
    /\ req[w].pc \in {"idle", "done"}
    /\ w = "w2" => req["w1"].pc \notin {"idle", "done"}

At(w, view, pc) == req[w].view = view /\ req[w].pc = pc

Start(w, r) == req' = [req EXCEPT ![w] = r]

\* the response leaves the worker; only the view and the answer stay
Done(w, status, error) ==
    req' = [req EXCEPT ![w] = [Idle EXCEPT !.view = req[w].view, !.pc = "done",
                                           !.status = status, !.error = error]]

\* the constraints an INSERT into users would violate
user_insert_errors(us, email, username) ==
    {"UNIQUE constraint failed: users.email" : u \in {x \in us : x.email = email}}
    \cup {"UNIQUE constraint failed: users.username" :
             u \in {x \in us : x.username = username}}

\* register_user up to the first write: validation and the exists() check
register_begin(w, email, password) ==
    LET r == [Idle EXCEPT !.view = "register_user", !.email = email,
                          !.password = password]
    IN  /\ Free(w)
        /\ UNCHANGED <<db, now, resp>>
        /\ IF email = "" \/ password = ""
           THEN Start(w, [Idle EXCEPT !.view = r.view, !.pc = "done",
                                      !.status = 400,
                                      !.error = "Email and password are required"])
           ELSE IF email_taken(users, email)
           THEN Start(w, [Idle EXCEPT !.view = r.view, !.pc = "done",
                                      !.status = 400,
                                      !.error = "User with this email already exists"])
           ELSE Start(w, [r EXCEPT !.pc = "create"])

\* user = User.objects.create(email=email)
register_create(w) ==
    LET errors == user_insert_errors(users, req[w].email, "")
    IN  /\ At(w, "register_user", "create")
        /\ UNCHANGED <<group_tables, membership_tables, house_tables,
                       document_tables, now, resp>>
        /\ IF ~user_unique(users, req[w].email, "")
           THEN /\ \E e \in errors : Done(w, 400, e)
                /\ UNCHANGED user_tables
           ELSE /\ next_user_id <= MaxUserId
                /\ users' = users \cup {UserRow(next_user_id, req[w].email, "", "")}
                /\ next_user_id' = next_user_id + 1
                /\ req' = [req EXCEPT ![w] = [@ EXCEPT !.pc = "save",
                                                      !.new_id = next_user_id]]

\* user.set_password(password); user.save(): an UPDATE of the row, or an
\* INSERT when the row is gone
register_save(w) ==
    LET id == req[w].new_id
        row == UserRow(id, req[w].email, "", make_password(req[w].password))
        others == {u \in users : u.id # id}
    IN  /\ At(w, "register_user", "save")
        /\ UNCHANGED <<next_user_id, group_tables, membership_tables,
                       house_tables, document_tables, now, resp>>
        /\ IF user_exists(users, id) \/ user_unique(users, req[w].email, "")
           THEN /\ users' = others \cup {row}
                /\ Done(w, 201, "")
           ELSE /\ \E e \in user_insert_errors(users, req[w].email, "") :
                      Done(w, 400, e)
                /\ UNCHANGED users

\* join_hoa_group up to the insert: both lookups and the exists() check
join_begin(w, user_id, hoa_group_id) ==
    LET r == [Idle EXCEPT !.view = "join_hoa_group", !.user_id = user_id,
                          !.hoa_group_id = hoa_group_id]
        Fail(status, error) ==
            Start(w, [Idle EXCEPT !.view = r.view, !.pc = "done", !.status = status,
                              !.error = error])
    IN  /\ Free(w)
        /\ UNCHANGED <<db, now, resp>>
        /\ IF ~user_exists(users, user_id) THEN Fail(404, "User not found")
           ELSE IF ~group_exists(hoa_groups, hoa_group_id)
           THEN Fail(404, "HOAGroup not found")
           ELSE IF already_member(memberships, user_id, hoa_group_id)
           THEN Fail(400, "User is already a member of this HOAGroup")
           ELSE Start(w, [r EXCEPT !.pc = "insert"])

\* HOAMembership.objects.create(user=user, hoa_group=hoa_group, role='member'),
\* outside any try: an IntegrityError leaves the view as a 500
join_insert(w) ==
    LET u == req[w].user_id
        g == req[w].hoa_group_id
    IN  /\ At(w, "join_hoa_group", "insert")
        /\ UNCHANGED <<user_tables, group_tables, house_tables, document_tables,
                       now, resp>>
        /\ IF ~membership_unique(memberships, u, g)
           THEN /\ Done(w, 500, "UNIQUE constraint failed: hoa_memberships")
                /\ UNCHANGED membership_tables
           ELSE IF ~user_exists(users, u) \/ ~group_exists(hoa_groups, g)
           THEN /\ Done(w, 500, "FOREIGN KEY constraint failed")
                /\ UNCHANGED membership_tables
           ELSE /\ memberships' = memberships \cup
                       {MembershipRow(next_membership_id, u, g, "member", now)}
                /\ next_membership_id' = next_membership_id + 1
                /\ Done(w, 200, "")

\* the constraints an INSERT into hoa_groups would violate
group_insert_errors(gs, name, owner_email) ==
    {"UNIQUE constraint failed: hoa_groups.name" :
        g \in {x \in gs : x.name = name}}
    \cup {"UNIQUE constraint failed: hoa_groups.owner_email" :
             g \in {x \in gs : x.owner_email = owner_email}}

\* user_hoa_groups (POST) up to the first write
create_group_begin(w, user_id, name, owner_email) ==
    LET r == [Idle EXCEPT !.view = "user_hoa_groups", !.user_id = user_id,
                          !.name = name, !.owner_email = owner_email]
        Fail(status, error) ==
            Start(w, [Idle EXCEPT !.view = r.view, !.pc = "done", !.status = status,
                              !.error = error])
    IN  /\ Free(w)
        /\ UNCHANGED <<db, now, resp>>
        /\ IF ~user_exists(users, user_id) THEN Fail(404, "User not found")
           ELSE IF name = <<>> \/ owner_email = ""
           THEN Fail(400, "Name and owner_email are required")
           ELSE IF name_taken(hoa_groups, name)
           THEN Fail(400, "HOAGroup with this name already exists")
           ELSE IF owner_email_taken(hoa_groups, owner_email)
           THEN Fail(400, "HOAGroup with this owner_email already exists")
           ELSE Start(w, [r EXCEPT !.pc = "create"])

\* hoa_group = HOAGroup.objects.create(name=name, owner_email=owner_email)
create_group_insert(w) ==
    LET errors == group_insert_errors(hoa_groups, req[w].name, req[w].owner_email)
    IN  /\ At(w, "user_hoa_groups", "create")
        /\ UNCHANGED <<user_tables, membership_tables, house_tables,
                       document_tables, now, resp>>
        /\ IF ~group_unique(hoa_groups, req[w].name, req[w].owner_email)
           THEN /\ \E e \in errors : Done(w, 400, e)
                /\ UNCHANGED group_tables
           ELSE /\ next_group_id <= MaxGroupId
                /\ hoa_groups' = hoa_groups \cup
                       {GroupRow(next_group_id, req[w].name, req[w].owner_email)}
                /\ next_group_id' = next_group_id + 1
                /\ req' = [req EXCEPT ![w] = [@ EXCEPT !.pc = "membership",
                                                      !.new_id = next_group_id]]

\* HOAMembership.objects.create(user=user, hoa_group=hoa_group, role='admin')
create_group_membership(w) ==
    LET u == req[w].user_id
        g == req[w].new_id
    IN  /\ At(w, "user_hoa_groups", "membership")
        /\ UNCHANGED <<user_tables, group_tables, house_tables, document_tables,
                       now, resp>>
        \* an IntegrityError here is answered by `except Exception`; the
        \* group row written by the statement before stays
        /\ IF ~membership_unique(memberships, u, g)
           THEN /\ Done(w, 400, "UNIQUE constraint failed: hoa_memberships")
                /\ UNCHANGED membership_tables
           ELSE IF ~user_exists(users, u) \/ ~group_exists(hoa_groups, g)
           THEN /\ Done(w, 400, "FOREIGN KEY constraint failed")
                /\ UNCHANGED membership_tables
           ELSE /\ memberships' = memberships \cup
                       {MembershipRow(next_membership_id, u, g, "admin", now)}
                /\ next_membership_id' = next_membership_id + 1
                /\ Done(w, 201, "")

\* user_houses (POST) up to the first write
create_house_begin(w, user_id, address) ==
    LET r == [Idle EXCEPT !.view = "user_houses", !.user_id = user_id,
                          !.address = address]
        Fail(status, error) ==
            Start(w, [Idle EXCEPT !.view = r.view, !.pc = "done", !.status = status,
                              !.error = error])
    IN  /\ Free(w)
        /\ UNCHANGED <<db, now, resp>>
        /\ IF ~user_exists(users, user_id) THEN Fail(404, "User not found")
           ELSE IF address = "" THEN Fail(400, "Address is required")
           ELSE IF address_taken(houses, address)
           THEN Fail(400, "House with this address already exists")
           ELSE Start(w, [r EXCEPT !.pc = "create"])

\* house = House.objects.create(address=address)
create_house_insert(w) ==
    /\ At(w, "user_houses", "create")
    /\ UNCHANGED <<user_tables, group_tables, membership_tables,
                   document_tables, now, resp>>
    /\ IF ~house_unique(houses, req[w].address)
       THEN /\ Done(w, 400, "UNIQUE constraint failed: houses.address")
            /\ UNCHANGED house_tables
       ELSE /\ next_house_id <= MaxHouseId
            /\ houses' = houses \cup {HouseRow(next_house_id, req[w].address, {})}
            /\ next_house_id' = next_house_id + 1
            /\ req' = [req EXCEPT ![w] = [@ EXCEPT !.pc = "occupant",
                                                  !.new_id = next_house_id]]

\* house.users.add(user)
create_house_occupant(w) ==
    LET house == CHOOSE h \in houses : h.id = req[w].new_id
    IN  /\ At(w, "user_houses", "occupant")
        /\ UNCHANGED <<user_tables, group_tables, membership_tables,
                       document_tables, next_house_id, now, resp>>
        /\ IF ~user_exists(users, req[w].user_id)
           THEN /\ Done(w, 400, "FOREIGN KEY constraint failed")
                /\ UNCHANGED houses
           ELSE /\ houses' = (houses \ {house}) \cup
                       {HouseRow(house.id, house.address,
                                 house.users \cup {req[w].user_id})}
                /\ Done(w, 201, "")

ConcEmails == {"USER1@example.com"}

RegisterBegin == \E w \in Workers, e \in ConcEmails :
    register_begin(w, e, "pw1")
RegisterCreate == \E w \in Workers : register_create(w)
RegisterSave == \E w \in Workers : register_save(w)
JoinBegin == \E w \in Workers, u \in UserIds, g \in GroupIds : join_begin(w, u, g)
JoinInsert == \E w \in Workers : join_insert(w)
\* "owner1@hoa.com" is the owner email of the seeded Sunset HOA
ConcOwnerEmails == {"owner@x.com", "owner1@hoa.com"}
CreateGroupBegin == \E w \in Workers, u \in UserIds, o \in ConcOwnerEmails :
    create_group_begin(w, u, OakHOA, o)
CreateGroupInsert == \E w \in Workers : create_group_insert(w)
CreateGroupMembership == \E w \in Workers : create_group_membership(w)
CreateHouseBegin == \E w \in Workers, u \in UserIds :
    create_house_begin(w, u, "123 Main St")
CreateHouseInsert == \E w \in Workers : create_house_insert(w)
CreateHouseOccupant == \E w \in Workers : create_house_occupant(w)

NextConc ==
    \/ RegisterBegin
    \/ RegisterCreate
    \/ RegisterSave
    \/ JoinBegin
    \/ JoinInsert
    \/ CreateGroupBegin
    \/ CreateGroupInsert
    \/ CreateGroupMembership
    \/ CreateHouseBegin
    \/ CreateHouseInsert
    \/ CreateHouseOccupant
    \/ Seed

SpecConc == Init /\ [][NextConc]_vars

(***************************************************************************)
(* C1.  A document mutation (create, update, delete) by an existing user   *)
(* who is not an admin of the existing target group is answered 403 and    *)
(* leaves the documents unchanged, whether or not the addressed document   *)
(* exists and whether or not a title is given.                             *)
(***************************************************************************)
C1_NonAdminAlwaysForbidden ==
    [][\A g \in GroupIds, u \in UserIds, d \in DocIds, t \in Titles,
          c \in Contents :
          (/\ resp'.view \in {"hoa_group_documents", "delete_document"}
           /\ group_exists(hoa_groups, g)
           /\ user_exists(users, u)
           /\ ~is_admin(memberships, g, u)
           /\ \/ hoa_group_documents("POST", g, u, t, c)
              \/ delete_document("PUT", g, d, u, t, c)
              \/ delete_document("DELETE", g, d, u, "", ""))
          => (resp'.status = 403 /\ documents' = documents)]_vars

(***************************************************************************)
(* C2.  In every reachable state, under every interleaving of the          *)
(* handlers' statements, no two membership rows have the same user and     *)
(* the same group.                                                         *)
(***************************************************************************)
C2_OneMembershipPerPair ==
    \A m1, m2 \in memberships :
        (m1.user = m2.user /\ m1.hoa_group = m2.hoa_group) => m1 = m2

\* two joins for the same pair raced and the storage layer refused the second
C2_Witness ==
    \E w \in Workers :
        /\ req[w].pc = "done"
        /\ req[w].view = "join_hoa_group"
        /\ req[w].error = "UNIQUE constraint failed: hoa_memberships"

(***************************************************************************)
(* C3.  join for a pair that already has a membership is answered 400      *)
(* "already a member" and leaves the membership table as it was: no        *)
(* second row, and the existing row keeps its role.                        *)
(***************************************************************************)
C3_JoinTwiceConflict ==
    [][\A u \in UserIds, g \in GroupIds :
          (/\ resp'.view = "join_hoa_group"
           /\ \E m \in memberships : m.user = u /\ m.hoa_group = g
           /\ join_hoa_group("POST", u, g))
          => /\ resp'.status = 400
             /\ resp'.error = "User is already a member of this HOAGroup"
             /\ memberships' = memberships]_vars

\* a join was refused while a group has its creator as admin
C3_Witness ==
    /\ resp.view = "join_hoa_group"
    /\ resp.error = "User is already a member of this HOAGroup"
    /\ \E m \in memberships : m.role = "admin"

(***************************************************************************)
(* C4.  Under every interleaving of two requests, a request that fails is  *)
(* answered 400 or 404 with one of the handlers' own messages ("already    *)
(* exists", "already a member", ...), never with a server error or the     *)
(* storage layer's text, and no duplicate record exists.                   *)
(***************************************************************************)
HandlerErrors ==
    {"Email and password are required",
     "User with this email already exists",
     "User not found",
     "HOAGroup not found",
     "User is already a member of this HOAGroup",
     "Name and owner_email are required",
     "HOAGroup with this name already exists",
     "HOAGroup with this owner_email already exists",
     "Address is required",
     "House with this address already exists"}

C4_DuplicateRaceTranslated ==
    /\ \A w \in Workers :
          (req[w].pc = "done" /\ req[w].status \notin {200, 201})
          => (req[w].status \in {400, 404} /\ req[w].error \in HandlerErrors)
    /\ \A u1, u2 \in users : u1.email = u2.email => u1 = u2
    /\ \A g1, g2 \in hoa_groups :
          (g1.name = g2.name \/ g1.owner_email = g2.owner_email) => g1 = g2
    /\ \A h1, h2 \in houses : h1.address = h2.address => h1 = h2
    /\ \A m1, m2 \in memberships :
          (m1.user = m2.user /\ m1.hoa_group = m2.hoa_group) => m1.id = m2.id

(***************************************************************************)
(* C5.  Whenever a createGroup request has written its group, the store    *)
(* holds the creator's admin membership in that group: no other request    *)
(* can see the group without it.                                           *)
(***************************************************************************)
C5_GroupCreatedWithAdmin ==
    \A w \in Workers :
        (req[w].view = "user_hoa_groups" /\ req[w].new_id # 0)
        => \E m \in memberships :
              /\ m.hoa_group = req[w].new_id
              /\ m.user = req[w].user_id
              /\ m.role = "admin"

(***************************************************************************)
(* C6.  A registration with a non-empty password and a non-empty email     *)
(* that no user holds is answered 201 and the user exists afterwards,      *)
(* however many users are registered already.                              *)
(***************************************************************************)
C6_FreshEmailRegisters ==
    [][\A e \in Emails, p \in Passwords :
          (/\ resp'.view = "register_user"
           /\ e # "" /\ p # ""
           /\ \A u \in users : u.email # e
           /\ register_user("POST", e, p))
          => /\ resp'.status = 201
             /\ \E u \in users' : u.email = e]_vars

(***************************************************************************)
(* C7.  With users and groups deleted at will, every membership refers to  *)
(* a user and a group that exist and every document to a group that        *)
(* exists: a deletion takes the rows that refer to the deleted row along.  *)
(***************************************************************************)
C7_NoDanglingReference ==
    /\ \A m \in memberships :
          /\ \E u \in users : u.id = m.user
          /\ \E g \in hoa_groups : g.id = m.hoa_group
    /\ \A d \in documents : \E g \in hoa_groups : g.id = d.hoa_group

\* a user who had memberships was deleted while other memberships remain
C7_Witness ==
    /\ resp.view = "delete_user"
    /\ memberships # {}
    /\ \E id \in 1..(next_user_id - 1) :
          /\ \A u \in users : u.id # id
          /\ \E id2 \in 1..(next_membership_id - 1) :
                \A m \in memberships : m.id # id2

(***************************************************************************)
(* C8.  The admin flag the group dashboard computes for an existing user   *)
(* is true exactly when a membership with role admin exists for that user  *)
(* in that group; it is false for a user without a membership in the       *)
(* group, for a member with role member, and for an admin of another       *)
(* group only.                                                             *)
(***************************************************************************)
C8_IsAdminExactPair ==
    [][\A g \in GroupIds, u \in UserIds :
          (/\ resp'.view = "hoa_group_dashboard"
           /\ \E x \in hoa_groups : x.id = g
           /\ \E x \in users : x.id = u
           /\ hoa_group_dashboard(g, u))
          => LET rows == {m \in memberships : m.user = u /\ m.hoa_group = g}
             IN  /\ resp'.data.is_admin <=> (\E m \in rows : m.role = "admin")
                 /\ rows = {} => ~resp'.data.is_admin
                 /\ (\A m \in rows : m.role = "member") => ~resp'.data.is_admin]_vars

\* the flag came out false for a user who is admin of another group
C8_Witness ==
    /\ resp.view = "hoa_group_dashboard"
    /\ resp.status = 200
    /\ resp.data.current_user # 0
    /\ ~resp.data.is_admin
    /\ \E m \in memberships :
          /\ m.user = resp.data.current_user
          /\ m.role = "admin"
          /\ m.hoa_group # resp.data.hoa_group

C10_DuplicateEmailConflict ==
    [][\A e \in Emails, p \in Passwords :
          (/\ resp'.view = "register_user"
           /\ e # "" /\ p # ""
           /\ register_user("POST", e, p))
          => IF \E u \in users : u.email = e
             THEN /\ resp'.status = 400
                  /\ resp'.error = "User with this email already exists"
                  /\ users' = users
             ELSE resp'.error # "User with this email already exists"]_vars

\* a registration was refused for its email, held by a user who registered
\* through the handler
C10_Witness ==
    /\ resp.view = "register_user"
    /\ resp.error = "User with this email already exists"
    /\ \E u \in users : u.email = "user1@example.com" /\ u.username = ""

(***************************************************************************)
(* C11.  No request is answered with status 500: whatever fails while a    *)
(* request is handled is answered with a 4xx status.                       *)
(***************************************************************************)
C11_NoServerError == resp.status # 500

C13_Distinct ==
    /\ \A u1, u2 \in users : u1.email = u2.email => u1.id = u2.id
    /\ \A g1, g2 \in hoa_groups :
          (g1.name = g2.name \/ g1.owner_email = g2.owner_email) => g1.id = g2.id
    /\ \A h1, h2 \in houses : h1.address = h2.address => h1.id = h2.id

C13_Refused(w) ==
    /\ req'[w].pc = "done"
    /\ req'[w].status = 400
    /\ db' = db

C13_UniqueFields ==
    /\ []C13_Distinct
    /\ [][\A w \in Workers :
            /\ \A u \in UserIds, o \in ConcOwnerEmails :
                  (/\ req'[w].view = "user_hoa_groups"
                   /\ \E x \in users : x.id = u
                   /\ \E g \in hoa_groups : g.name = OakHOA \/ g.owner_email = o
                   /\ create_group_begin(w, u, OakHOA, o))
                  => C13_Refused(w)
            /\ (/\ req[w].view = "user_hoa_groups"
                /\ \E g \in hoa_groups : \/ g.name = req[w].name
                                          \/ g.owner_email = req[w].owner_email
                /\ create_group_insert(w))
               => C13_Refused(w)
            /\ \A u \in UserIds :
                  (/\ req'[w].view = "user_houses"
                   /\ \E x \in users : x.id = u
                   /\ \E h \in houses : h.address = "123 Main St"
                   /\ create_house_begin(w, u, "123 Main St"))
                  => C13_Refused(w)
            /\ (/\ req[w].view = "user_houses"
                /\ \E h \in houses : h.address = req[w].address
                /\ create_house_insert(w))
               => C13_Refused(w)]_vars

\* a createGroup with a new name was refused for its owner email, and a
\* house exists
C13_Witness ==
    /\ houses # {}
    /\ \E w \in Workers :
          /\ req[w].pc = "done"
          /\ req[w].view = "user_hoa_groups"
          /\ req[w].status = 400
          /\ req[w].error = "HOAGroup with this owner_email already exists"

(***************************************************************************)
(* C14.  A login with a non-empty email and a non-empty password that      *)
(* does not succeed gets one and the same answer, 401 "Invalid             *)
(* credentials" with no data, whether no user holds the email or a user    *)
(* holds it and the password is wrong.                                     *)
(***************************************************************************)
C14_LoginFailsUniformly ==
    [][\A e \in Emails, p \in LoginPasswords :
          (/\ resp'.view = "login_user"
           /\ e # "" /\ p # ""
           /\ ~\E u \in users : u.email = e /\ u.password = make_password(p)
           /\ login_user("POST", e, p))
          => resp' = [view |-> "login_user", status |-> 401,
                      error |-> "Invalid credentials", data |-> <<>>]]_vars

\* a login was refused while every email a request may carry is registered:
\* the password was wrong
C14_Witness ==
    /\ resp.view = "login_user"
    /\ resp.status = 401
    /\ \A e \in Emails \ {""} : \E u \in users : u.email = e

(***************************************************************************)
(* C15.  A createGroup answered 201 has added the group and a membership   *)
(* (creator, admin) in it; a join answered 200 has added a membership      *)
(* (user, member); the listing of a user's groups holds exactly the        *)
(* groups the user has a membership in, each with that membership's role,  *)
(* and so no group the user is not a member of.                            *)
(***************************************************************************)
C15_RolesOnCreateJoinList ==
    [][/\ \A u \in UserIds, n \in GroupNames, o \in OwnerEmails :
            (/\ resp'.view = "user_hoa_groups"
             /\ resp'.status = 201
             /\ user_hoa_groups("POST", u, n, o))
            => /\ \A g \in hoa_groups : g.id # resp'.data.id
               /\ \E g \in hoa_groups' : g.id = resp'.data.id /\ g.name = n
               /\ \E m \in memberships' :
                     /\ m.user = u
                     /\ m.hoa_group = resp'.data.id
                     /\ m.role = "admin"
       /\ \A v \in UserIds, g \in GroupIds :
            (/\ resp'.view = "join_hoa_group"
             /\ resp'.status = 200
             /\ join_hoa_group("POST", v, g))
            => \E m \in memberships' \ memberships :
                  m.user = v /\ m.hoa_group = g /\ m.role = "member"
       /\ \A x \in UserIds :
            (/\ resp'.view = "user_hoa_groups"
             /\ resp'.status = 200
             /\ user_hoa_groups("GET", x, <<>>, ""))
            => resp'.data = {[id |-> m.hoa_group, role |-> m.role] :
                                m \in {r \in memberships : r.user = x}}]_vars

\* a listing with a group the user created and a group the user is a plain
\* member of
C15_Witness ==
    /\ resp.view = "user_hoa_groups"
    /\ resp.status = 200
    /\ \E r \in resp.data : r.role = "admin"
    /\ \E r \in resp.data : r.role = "member"

(***************************************************************************)
(* C16.  The answer to a search with a non-blank query holds only groups   *)
(* whose name contains the query, letter case aside, and in which the      *)
(* user has no membership; it holds at most 10 groups, and all the         *)
(* qualifying groups when there are 10 or fewer.                           *)
(***************************************************************************)
C16_Qualifying(u, q) ==
    {g.id : g \in {x \in hoa_groups :
                     /\ contains(lower_str(x.name), lower_str(q))
                     /\ \A m \in memberships :
                           ~(m.user = u /\ m.hoa_group = x.id)}}

C16_SearchMatchesCapped ==
    [][(/\ resp'.view = "search_hoa_groups"
        /\ resp'.status = 200
        /\ resp'.data.query # <<>>)
          => LET found == resp'.data.hoa_groups
                 qualifying == C16_Qualifying(resp'.data.user_id, resp'.data.query)
             IN  /\ found \subseteq qualifying
                 /\ Cardinality(found) <= 10
                 /\ Cardinality(qualifying) <= 10 => found = qualifying]_vars

\* an answer of 10 groups to a search for which more than 10 qualify
C16_Witness ==
    /\ resp.view = "search_hoa_groups"
    /\ resp.status = 200
    /\ Cardinality(resp.data.hoa_groups) = 10
    /\ Cardinality(C16_Qualifying(resp.data.user_id, resp.data.query)) > 10

(***************************************************************************)
(* C17.  A search by an existing user whose query is missing, empty or     *)
(* made of whitespace only is answered 200 with no group, however many     *)
(* groups the store holds that the user is not a member of.                *)
(***************************************************************************)
C17_BlankQueryEmpty ==
    [][\A u \in UserIds, q \in SearchQueries :
          (/\ resp'.view = "search_hoa_groups"
           /\ \E x \in users : x.id = u
           /\ \A i \in 1..Len(q) : q[i] \in {" ", "\t", "\n"}
           /\ search_hoa_groups("GET", u, q))
          => (resp'.status = 200 /\ resp'.data.hoa_groups = {})]_vars

\* a blank search came back empty for a user who could join some group
C17_Witness ==
    /\ resp.view = "search_hoa_groups"
    /\ resp.status = 200
    /\ resp.data.query = <<>>
    /\ resp.data.hoa_groups = {}
    /\ \E g \in hoa_groups :
          \A m \in memberships :
              ~(m.user = resp.data.user_id /\ m.hoa_group = g.id)

C19_RoleAdminOrMember ==
    \A m \in memberships : m.role \in {"admin", "member"}

\* memberships written by all three writers: a group's creator, a joiner
\* and the seed command
C19_Witness ==
    /\ resp.view = "join_hoa_group"
    /\ resp.status = 200
    /\ \E a, b, c \in memberships :
          /\ a.role = "admin"
          /\ b.role = "member" /\ c.role = "member"
          /\ b.hoa_group # a.hoa_group
          /\ c.hoa_group = a.hoa_group

(***************************************************************************)
(* C20.  A document's updated_at is never before its created_at; no step   *)
(* changes the created_at of a document; an update answered 200 sets       *)
(* title and content and moves updated_at forward to the time of the       *)
(* update; an update answered 400, 403 or 404 leaves the documents,        *)
(* timestamps and text, as they were.                                      *)
(***************************************************************************)
C20_Ordered == \A d \in documents : d.updated_at >= d.created_at

\* the update of document `id` to title t and content c, made at `now`
C20_Updated(id, t, c) ==
    \E d \in documents, e \in documents' :
        /\ d.id = id /\ e.id = id
        /\ e.title = t /\ e.content = c
        /\ e.updated_at = now
        /\ e.updated_at > d.updated_at
        /\ documents' \ {e} = documents \ {d}

\* a step that is an update (PUT) is one answered 400, 403 or 404 that
\* leaves the documents alone, or one answered 200 that made the update
C20_Timestamps ==
    /\ []C20_Ordered
    /\ [][(\A d \in documents, e \in documents' :
                d.id = e.id => e.created_at = d.created_at)
           /\
           (resp'.view = "delete_document"
            => \/ (resp'.status \in {400, 403, 404} /\ documents' = documents)
               \/ \A g \in GroupIds, id \in 1..MaxDocs, u \in BodyUserIds,
                      t \in DocTitles, c \in Contents :
                     \/ (resp'.status = 200 /\ C20_Updated(id, t, c))
                     \/ ~delete_document("PUT", g, id, u, t, c))]_vars

\* an update was refused for want of the admin role, after an earlier update
\* of a document had gone through
C20_Witness ==
    /\ resp.view = "delete_document"
    /\ resp.status = 403
    /\ resp.error = "Only admins can update documents"
    /\ \E d \in documents : d.updated_at > d.created_at

(***************************************************************************)
(* C21.  A create by a user with an admin membership in the group is       *)
(* answered 201 when the title is not empty and adds one document, of      *)
(* that group, with the given title and content, under an id no document   *)
(* has; with an empty or missing title it is answered 400 "Title is        *)
(* required" and adds nothing.  Either way every other document and every  *)
(* membership stays as it was.                                             *)
(***************************************************************************)
C21_Created(g, t, c) ==
    /\ resp'.status = 201
    /\ \E e \in documents' :
          /\ documents' = documents \cup {e}
          /\ \A d \in documents : d.id # e.id
          /\ e.hoa_group = g /\ e.title = t /\ e.content = c
    /\ memberships' = memberships

C21_Refused ==
    /\ resp'.status = 400
    /\ resp'.error = "Title is required"
    /\ documents' = documents
    /\ memberships' = memberships

C21_AdminCreates ==
    [][resp'.view = "hoa_group_documents"
       => \A g \in GroupIds, u \in BodyUserIds, t \in DocTitles, c \in Contents :
             \/ ~\E m \in memberships :
                    m.user = u /\ m.hoa_group = g /\ m.role = "admin"
             \/ IF t = "" THEN C21_Refused ELSE C21_Created(g, t, c)
             \/ ~hoa_group_documents("POST", g, u, t, c)]_vars

\* an admin's create without a title was refused, after an earlier create
\* of theirs had gone through
C21_Witness ==
    /\ resp.view = "hoa_group_documents"
    /\ resp.status = 400
    /\ resp.error = "Title is required"
    /\ documents # {}

(***************************************************************************)
(* C22.  A delete answered 200 was asked by an admin of the group and      *)
(* removes that document and no other.  A document that is gone stays      *)
(* gone: its id is never given again, an update or delete of it is         *)
(* answered 404, and no listing shows it.  A document changes or           *)
(* disappears only by an admin's update, an admin's delete, or the         *)
(* deletion of its group.                                                  *)
(***************************************************************************)
C22_Admin(u, g) ==
    \E m \in memberships : m.user = u /\ m.hoa_group = g /\ m.role = "admin"

\* id was given to a document that exists no more
C22_Gone(id) == id < next_doc_id /\ \A d \in documents : d.id # id

C22_DeleteRemovesOne ==
    (resp'.view = "delete_document" /\ resp'.status = 200)
    => \A g \in GroupIds, id \in 1..MaxDocs, u \in BodyUserIds :
          \/ /\ C22_Admin(u, g)
             /\ \E d \in documents :
                   /\ d.id = id /\ d.hoa_group = g
                   /\ documents' = documents \ {d}
          \/ ~delete_document("DELETE", g, id, u, "", "")

C22_GoneForGood ==
    \A id \in 1..MaxDocs :
        C22_Gone(id)
        => /\ \A d \in documents' : d.id # id
           /\ (resp'.view = "hoa_group_documents" /\ resp'.status = 200)
              => \A i \in DOMAIN resp'.data : resp'.data[i].id # id
           /\ (resp'.view = "delete_document" /\ resp'.status # 404)
              => \A g \in GroupIds, u \in BodyUserIds, t \in DocTitles,
                    c \in Contents :
                    /\ ~delete_document("PUT", g, id, u, t, c)
                    /\ ~delete_document("DELETE", g, id, u, "", "")

C22_OnlyAdminTransitions ==
    \A d \in documents :
        d \notin documents'
        => \/ /\ resp'.view = "delete_hoa_group"
              /\ \A g \in hoa_groups' : g.id # d.hoa_group
           \/ /\ resp'.view = "delete_document"
              /\ resp'.status = 200
              /\ \E u \in UserIds :
                    /\ C22_Admin(u, d.hoa_group)
                    /\ \/ delete_document("DELETE", d.hoa_group, d.id, u, "", "")
                       \/ \E t \in DocTitles, c \in Contents :
                             delete_document("PUT", d.hoa_group, d.id, u, t, c)

C22_DeletionTerminal ==
    [][C22_DeleteRemovesOne /\ C22_GoneForGood /\ C22_OnlyAdminTransitions]_vars

\* every document ever created was deleted by an admin, no group was, and
\* a later update or delete of one of them was answered 404
C22_Witness ==
    /\ resp.view = "delete_document"
    /\ resp.status = 404
    /\ resp.error = "Document not found"
    /\ next_doc_id = MaxDocs + 1
    /\ documents = {}
    /\ Cardinality(hoa_groups) = next_group_id - 1

(***************************************************************************)
(* C23.  An update or delete that addresses a document under an existing   *)
(* group other than the document's own is answered 404 "Document not       *)
(* found" and changes no document, whoever asks, an admin of the           *)
(* addressed group included.  A listing of a group shows documents of      *)
(* that group only, and a document changes or goes only by a request       *)
(* under its own group from an admin of that group.                        *)
(***************************************************************************)
C23_Foreign(g, id) ==
    /\ \E h \in hoa_groups : h.id = g
    /\ \E d \in documents : d.id = id /\ d.hoa_group # g

C23_OwningGroupOnly ==
    [][/\ resp'.view = "delete_document"
          => \A g \in OwnedGroupIds, id \in 1..MaxDocs, u \in UserIds,
                t \in DocTitles :
                \/ ~C23_Foreign(g, id)
                \/ /\ resp'.status = 404
                   /\ resp'.error = "Document not found"
                   /\ documents' = documents
                \/ /\ ~delete_document("PUT", g, id, u, t, "text")
                   /\ ~delete_document("DELETE", g, id, u, "", "")
       /\ (resp'.view = "hoa_group_documents" /\ resp'.status = 200)
          => \A g \in OwnedGroupIds :
                \/ \A i \in DOMAIN resp'.data : resp'.data[i].hoa_group = g
                \/ ~hoa_group_documents("GET", g, 0, "", "")
       /\ \A d \in documents :
             \/ d \in documents'
             \/ \A g \in OwnedGroupIds, id \in 1..MaxDocs, u \in UserIds,
                   t \in DocTitles :
                   \/ /\ g = d.hoa_group
                      /\ id = d.id
                      /\ \E m \in memberships :
                            m.user = u /\ m.hoa_group = g /\ m.role = "admin"
                   \/ /\ ~delete_document("PUT", g, id, u, t, "text")
                      /\ ~delete_document("DELETE", g, id, u, "", "")]_vars

\* two groups, each with a document and an admin of its own, and a request
\* for one of the documents under the wrong group was answered 404
C23_Witness ==
    /\ resp.view = "delete_document"
    /\ resp.status = 404
    /\ resp.error = "Document not found"
    /\ \A id \in 1..MaxDocs : \E d \in documents : d.id = id
    /\ \E d, e \in documents, a, b \in memberships :
          /\ d.hoa_group # e.hoa_group
          /\ a.role = "admin" /\ a.hoa_group = d.hoa_group
          /\ b.role = "admin" /\ b.hoa_group = e.hoa_group
          /\ a.user # b.user

(***************************************************************************)
(* C24.  A membership keeps its user, group, role and joined_at for as     *)
(* long as it exists.  A new membership with role admin comes only with a  *)
(* new group, in the request that creates the group, and is the            *)
(* creator's; every other new membership is a member's.  So a group has    *)
(* at most one admin, its creator, and a group without an admin (its       *)
(* creator was deleted) keeps its documents as they are whatever is        *)
(* requested.                                                              *)
(***************************************************************************)
C24_OneAdmin ==
    \A a, b \in memberships :
        (a.role = "admin" /\ b.role = "admin" /\ a.hoa_group = b.hoa_group)
        => a = b

C24_Kept ==
    \A m \in memberships, n \in memberships' : m.id = n.id => n = m

C24_New ==
    \A n \in memberships' :
        (\A m \in memberships : m.id # n.id)
        => /\ n.id >= next_membership_id
           /\ IF n.role = "admin"
              THEN /\ resp'.view = "user_hoa_groups"
                   /\ resp'.status = 201
                   /\ n.hoa_group >= next_group_id
                   /\ \E g \in hoa_groups' : g.id = n.hoa_group
                   /\ user_hoa_groups("POST", n.user, OakHOA, "owner@x.com")
              ELSE /\ n.role = "member"
                   /\ resp'.view \in {"join_hoa_group", "seed"}

C24_NoAdminNoWrite ==
    \A g \in GroupIds :
        (/\ resp'.view \in {"hoa_group_documents", "delete_document"}
         /\ \A m \in memberships : ~(m.hoa_group = g /\ m.role = "admin"))
        => {d \in documents' : d.hoa_group = g} = {d \in documents : d.hoa_group = g}

C24_RolesFixed ==
    /\ []C24_OneAdmin
    /\ [][C24_Kept /\ C24_New /\ C24_NoAdminNoWrite]_vars

\* the creator of a group was deleted; the group has a document, a member
\* who joined later and no admin, and a write to its documents was refused
C24_Witness ==
    /\ resp.view \in {"hoa_group_documents", "delete_document"}
    /\ resp.status = 403
    /\ \E d \in documents, m \in memberships :
          /\ m.hoa_group = d.hoa_group
          /\ m.role = "member"
          /\ m.joined_at > d.created_at
          /\ \A a \in memberships : ~(a.hoa_group = d.hoa_group /\ a.role = "admin")

(***************************************************************************)
(* C25.  A step that changes any table or counter is not a login, not a    *)
(* GET of a user's groups or houses, of the search, of a group's           *)
(* documents, not a dashboard, and is not answered 405.  A request on a    *)
(* user's houses leaves users, groups, memberships and documents as they   *)
(* were; a request on groups, memberships or documents leaves the houses   *)
(* and their occupants as they were.                                       *)
(***************************************************************************)
C25_ReadOnly ==
    \/ db' = db
    \/ /\ resp'.status # 405
       /\ \A m \in {"GET", "POST"}, e \in Emails, p \in LoginPasswords :
             ~login_user(m, e, p)
       /\ \A u \in UserIds :
             /\ ~user_hoa_groups("GET", u, <<>>, "")
             /\ ~user_houses("GET", u, "")
             /\ ~user_dashboard(u)
             /\ \A q \in Queries : ~search_hoa_groups("GET", u, q)
       /\ \A g \in GroupIds :
             /\ ~hoa_group_documents("GET", g, 0, "", "")
             /\ \A u \in BodyUserIds : ~hoa_group_dashboard(g, u)

C25_HousesApart ==
    \/ <<user_tables, group_tables, membership_tables, document_tables>>'
          = <<user_tables, group_tables, membership_tables, document_tables>>
    \/ \A m \in {"GET", "POST", "DELETE"}, u \in UserIds, a \in Addresses :
          ~user_houses(m, u, a)

C25_GroupsApart ==
    \/ house_tables' = house_tables
    \/ /\ \A m \in {"GET", "POST", "DELETE"}, u \in UserIds,
             n \in GroupNames, o \in OwnerEmails :
             ~user_hoa_groups(m, u, n, o)
       /\ \A m \in {"GET", "POST"}, u \in UserIds :
             /\ \A g \in GroupIds : ~join_hoa_group(m, u, g)
             /\ \A q \in Queries : ~search_hoa_groups(m, u, q)
       /\ \A g \in GroupIds, u \in BodyUserIds :
             /\ ~hoa_group_dashboard(g, u)
             /\ \A m \in {"GET", "POST", "DELETE"}, t \in Titles, c \in Contents :
                   ~hoa_group_documents(m, g, u, t, c)
             /\ \A m \in {"GET", "PUT", "DELETE"}, d \in DocIds,
                   t \in Titles, c \in Contents :
                   ~delete_document(m, g, d, u, t, c)

C25_FrameKept ==
    [][C25_ReadOnly /\ C25_HousesApart /\ C25_GroupsApart]_vars

\* a store holding a house, a created group and a document, on which a
\* login succeeded
C25_Witness ==
    /\ resp.view = "login_user"
    /\ resp.status = 200
    /\ houses # {}
    /\ documents # {}
    /\ \E m \in memberships : m.role = "admin"

====
